---- MODULE Spec2Model ----
(***************************************************************************)
(* A model of the earth-model controller (src/earth_model.py) and of the   *)
(* position model it samples (src/earth.py).                               *)
(*                                                                         *)
(* Angles are fixed-point integers in tenths of a degree ("deci-degrees"), *)
(* so DEGREES_PER_STEP = 360.0 / 200 = 1.8 degrees is the integer 18.      *)
(* A motor shaft position is a step index on the circle 0..STEPS_PER_REV-1.*)
(* Times are integers on the time axis of the almanac.                     *)
(***************************************************************************)
EXTENDS Integers, Sequences, FiniteSets

VARIABLES
    pc,                   \* where the main thread is
    axis,                 \* the axis of the scan call in progress (0: line 142, 1: line 148)
    phase,                \* scan's phase
    steps,                \* local `steps` of step_while/until_over_sensor
    found,                \* local `found` of step_while/until_over_sensor
    remaining,            \* iterations left in the take_steps loop in progress
    scanResult,           \* per axis, what scan returned: "none", "True", "False"
    sensor,               \* per axis, the hall-effect sensor's behaviour
    pos,                  \* per axis, the motor shaft position (step index on the circle)
    in_loop,              \* whether main has entered its while True loop (line 162)
    em,                   \* local `em` of main
    orbit_steps_floor,    \* local of main: tracked orbit step
    rotation_steps_floor, \* local of main: tracked rotation step
    prev_orbit,           \* tracked orbit step when the current sample began
    prev_rotation,        \* tracked rotation step when the current sample began
    fwd,                  \* per motor, FORWARD onestep commands of the call in progress
    bwd,                  \* per motor, BACKWARD onestep commands of the call in progress
    cmds,                 \* per motor, onestep commands since the scan or sample began
    net,                  \* per motor, FORWARD minus BACKWARD onestep commands since its scan
                          \* returned (the rotation motor's modulo STEPS_PER_REV)
    energized,            \* per motor, whether onestep has energized its coils
    released,             \* per motor, whether release() has been called
    exc,                  \* the exception or signal ending the process ("none" while running)
    exit_code,            \* the process's exit status once it is gone
    events,               \* argument `events` of find_surrounding_events
    time,                 \* argument `time` of find_surrounding_events
    evts                  \* what surrounding_events returned (<<>> is None)

vars == <<pc, axis, phase, steps, found, remaining, scanResult, sensor, pos, in_loop, em,
          orbit_steps_floor, rotation_steps_floor, prev_orbit, prev_rotation,
          fwd, bwd, cmds, net, energized, released, exc, exit_code, events, time, evts>>

scanVars == <<axis, phase, steps, found, scanResult>>
mainVars == <<in_loop, em, orbit_steps_floor, rotation_steps_floor, prev_orbit, prev_rotation>>
procVars == <<released, exc, exit_code>>
eventVars == <<events, time, evts>>

(***************************************************************************)
(* Program constants.                                                      *)
(***************************************************************************)
STEPS_PER_REV == 200
\* DEGREES_PER_STEP = 360.0 / STEPS_PER_REV, in deci-degrees
DEGREES_PER_STEP == 3600 \div STEPS_PER_REV
\* scan(False, steppers[0], sensors[0], 100, 50, sleep)
OrbitMaxScanSteps == 100
OrbitMaxSensorSteps == 50
\* scan(True, steppers[1], sensors[1], 200, 50, sleep)
RotationMaxScanSteps == 200
RotationMaxSensorSteps == 50

Axes == {0, 1}
\* the `forward` argument of the two scan calls
forward(a) == a = 1
max_scan_steps(a) == IF a = 0 THEN OrbitMaxScanSteps ELSE RotationMaxScanSteps
max_sensor_steps(a) == IF a = 0 THEN OrbitMaxSensorSteps ELSE RotationMaxSensorSteps

\* a local that has not been assigned yet
Undefined == -1
\* Python's None, as returned by find_surrounding_events when no pair matches
None == <<>>
NoModel == [orbit_degrees |-> Undefined, rotation_degrees |-> Undefined]

(***************************************************************************)
(* The hall-effect sensor.  A "window" sensor reads true exactly on the w  *)
(* consecutive shaft positions lo, lo+1, ... (w = 0: stuck false,          *)
(* w = STEPS_PER_REV: stuck true); a "flaky" sensor may read anything on   *)
(* every read.  The shaft position is followed only against a window      *)
(* sensor, the one sensor whose readings depend on it.                     *)
(***************************************************************************)
Window(lo, w) == [kind |-> "window", lo |-> lo, w |-> w]
Flaky == [kind |-> "flaky", lo |-> 0, w |-> 0]
StuckTrue == Window(0, STEPS_PER_REV)
StuckFalse == Window(0, 0)

OverWindow(s, p) == ((p - s.lo) % STEPS_PER_REV) < s.w

\* the values sensor.sensing() may return for axis a
sensing(a) ==
    IF sensor[a].kind = "flaky" THEN BOOLEAN ELSE {OverWindow(sensor[a], pos[a])}

(***************************************************************************)
(* motor.onestep(direction=FORWARD if f else BACKWARD) on motor a          *)
(***************************************************************************)
onestep(a, f) ==
    /\ pos' = IF sensor[a].kind = "window"
              THEN [pos EXCEPT ![a] = (pos[a] + (IF f THEN 1 ELSE -1)) % STEPS_PER_REV]
              ELSE pos
    /\ fwd' = [fwd EXCEPT ![a] = fwd[a] + (IF f THEN 1 ELSE 0)]
    /\ bwd' = [bwd EXCEPT ![a] = bwd[a] + (IF f THEN 0 ELSE 1)]
    /\ cmds' = [cmds EXCEPT ![a] = cmds[a] + 1]
    /\ net' = IF scanResult[a] = "none" THEN net
              ELSE IF a = 1
              THEN [net EXCEPT ![a] = (net[a] + (IF f THEN 1 ELSE -1)) % STEPS_PER_REV]
              ELSE [net EXCEPT ![a] = net[a] + (IF f THEN 1 ELSE -1)]
    /\ energized' = [energized EXCEPT ![a] = TRUE]

nostep == UNCHANGED <<pos, fwd, bwd, cmds, net, energized>>

\* a new call begins on motor a: its per-call command counts start at zero
newcall(a) ==
    /\ fwd' = [fwd EXCEPT ![a] = 0]
    /\ bwd' = [bwd EXCEPT ![a] = 0]
    /\ UNCHANGED <<pos, cmds, net, energized>>

(***************************************************************************)
(* scan: BACK_OFF, SEEK, CLEAR, CENTER                                     *)
(***************************************************************************)
\* the direction each phase steps in, given scan's `forward`
phase_forward(ph, f) == IF ph \in {"SEEK", "CLEAR"} THEN f ELSE ~f

\* a scan that allows every phase the step limit of SEEK
phase_max_scan_everywhere(ph, a) == max_scan_steps(a)

\* the step limit scan passes to each phase
phase_max(ph, a) == IF ph = "SEEK" THEN max_scan_steps(a) ELSE max_sensor_steps(a)

\* the loop condition of step_while_over_sensor and step_until_over_sensor
loop_continues(fnd, n, max) == ~fnd /\ n < max

\* a scan that never gives up on a phase
phase_never_failed(fnd) == FALSE

\* scan's `if not found: return False` after each bounded phase
phase_failed(fnd) == ~fnd

\* a CENTER that rounds the half width up
center_steps_rounded_up(n) == (n + 1) \div 2

\* the step count handed to take_steps for CENTER: int(steps / 2)
center_steps(n) == n \div 2

next_phase(ph) ==
    CASE ph = "BACK_OFF" -> "SEEK"
      [] ph = "SEEK" -> "CLEAR"
      [] ph = "CLEAR" -> "CENTER"
      [] OTHER -> "RETURNED"

\* one iteration of the while loop of step_while_over_sensor (BACK_OFF, CLEAR)
step_while_over_sensor ==
    /\ pc = "scan" /\ phase \in {"BACK_OFF", "CLEAR"}
    /\ loop_continues(found, steps, phase_max(phase, axis))
    /\ \E s \in sensing(axis) :
          IF s
          THEN /\ onestep(axis, phase_forward(phase, forward(axis)))
               /\ steps' = steps + 1
               /\ found' = found
          ELSE /\ nostep
               /\ found' = TRUE
               /\ steps' = steps
    /\ UNCHANGED <<pc, axis, phase, remaining, scanResult, sensor>>
    /\ UNCHANGED <<mainVars, procVars, eventVars>>

\* one iteration of the while loop of step_until_over_sensor (SEEK)
step_until_over_sensor ==
    /\ pc = "scan" /\ phase = "SEEK"
    /\ loop_continues(found, steps, phase_max(phase, axis))
    /\ \E s \in sensing(axis) :
          IF s
          THEN /\ nostep
               /\ found' = TRUE
               /\ steps' = steps
          ELSE /\ onestep(axis, phase_forward(phase, forward(axis)))
               /\ steps' = steps + 1
               /\ found' = found
    /\ UNCHANGED <<pc, axis, phase, remaining, scanResult, sensor>>
    /\ UNCHANGED <<mainVars, procVars, eventVars>>

\* a bounded phase returns (found, steps) to scan, which fails or goes on
scan_phase_return ==
    /\ pc = "scan" /\ phase \in {"BACK_OFF", "SEEK", "CLEAR"}
    /\ ~loop_continues(found, steps, phase_max(phase, axis))
    /\ IF phase_failed(found)
       THEN /\ phase' = "RETURNED"
            /\ scanResult' = [scanResult EXCEPT ![axis] = "False"]
            /\ remaining' = remaining
       ELSE /\ phase' = next_phase(phase)
            /\ scanResult' = scanResult
            /\ remaining' = IF phase = "CLEAR" THEN center_steps(steps) ELSE remaining
    /\ steps' = 0
    /\ found' = FALSE
    /\ IF phase_failed(found) THEN nostep ELSE newcall(axis)
    /\ UNCHANGED <<pc, axis, sensor>>
    /\ UNCHANGED <<mainVars, procVars, eventVars>>

\* CENTER: one iteration of take_steps(not forward, motor, int(steps / 2), sleep)
scan_center_step ==
    /\ pc = "scan" /\ phase = "CENTER"
    /\ remaining > 0
    /\ onestep(axis, phase_forward(phase, forward(axis)))
    /\ remaining' = remaining - 1
    /\ UNCHANGED <<pc, sensor>>
    /\ UNCHANGED <<scanVars, mainVars, procVars, eventVars>>

\* CENTER is done: return True
scan_return_true ==
    /\ pc = "scan" /\ phase = "CENTER"
    /\ remaining = 0
    /\ phase' = "RETURNED"
    /\ scanResult' = [scanResult EXCEPT ![axis] = "True"]
    /\ nostep
    /\ UNCHANGED <<pc, axis, steps, found, remaining, sensor>>
    /\ UNCHANGED <<mainVars, procVars, eventVars>>

scan ==
    \/ step_while_over_sensor
    \/ step_until_over_sensor
    \/ scan_phase_return
    \/ scan_center_step
    \/ scan_return_true

(***************************************************************************)
(* The event timelines of src/earth.py.  An event is [value, time]: value  *)
(* is the season code or the rise flag, time the timestamp in ticks of a   *)
(* quarter day.                                                            *)
(***************************************************************************)
EVENT_VERNAL_EQUINOX == 0
EVENT_SUMMER_SOLSTICE == 1
EVENT_AUTUMNAL_EQUINOX == 2
EVENT_WINTER_SOLSTICE == 3

EventTime(v, t) == [value |-> v, time |-> t]
\* n days in ticks of three hours
Days(n) == 8 * n

\* orbit_degrees_from_winter_solstice: surrounding_events(time, 100, season_event_times)
SeasonRadius == 100
\* rotation_degrees_from_solar_noon: surrounding_events(time, 1, noon_nadir_event_times)
RiseSetRadius == 1

\* a straddle test that accepts a time on the earlier event
straddles_inclusive(x, t, y) == x.time <= t /\ t < y.time

\* the strict straddle test of find_surrounding_events
straddles(x, t, y) == x.time < t /\ t < y.time

\* find_surrounding_events(events, time): the first consecutive pair that
\* straddles time, or None when the loop falls through
find_surrounding_events(evs, t) ==
    LET hits == {i \in 1..(Len(evs) - 1) : straddles(evs[i], t, evs[i + 1])}
    IN  IF hits = {}
        THEN None
        ELSE LET i == CHOOSE j \in hits : \A k \in hits : j <= k
             IN  <<evs[i], evs[i + 1]>>

\* the events of a calendar that fall in [t0, t1], as almanac.find_discrete gives them
in_window(calendar, t0, t1) ==
    SelectSeq(calendar, LAMBDA e : t0 <= e.time /\ e.time <= t1)

\* the almanac's season events of one year
SeasonCalendar ==
    << EventTime(EVENT_WINTER_SOLSTICE, Days(0)),
       EventTime(EVENT_VERNAL_EQUINOX, Days(89)),
       EventTime(EVENT_SUMMER_SOLSTICE, Days(182)),
       EventTime(EVENT_AUTUMNAL_EQUINOX, Days(276)),
       EventTime(EVENT_WINTER_SOLSTICE, Days(365)) >>

\* the almanac's sunrises (06:00) and sunsets (18:00) of days 8..12
RiseSetCalendar ==
    [i \in 1..10 |->
        LET d == 8 + ((i - 1) \div 2)
        IN  IF i % 2 = 1 THEN EventTime(TRUE, Days(d) + 2) ELSE EventTime(FALSE, Days(d) + 6)]

season_event_times(t0, t1) == in_window(SeasonCalendar, t0, t1)

rise_set_event_times(t0, t1) == in_window(RiseSetCalendar, t0, t1)

\* midpoints that carry the tag of the second event of each pair
noon_nadir_tagged_as_second(rs) ==
    [i \in 1..(Len(rs) - 1) |->
        EventTime(rs[i + 1].value, rs[i].time + ((rs[i + 1].time - rs[i].time) \div 2))]

\* noon_nadir_event_times: the midpoint of each consecutive rise/set pair, tagged as the first
noon_nadir_of(rs) ==
    [i \in 1..(Len(rs) - 1) |->
        EventTime(rs[i].value, rs[i].time + ((rs[i + 1].time - rs[i].time) \div 2))]

noon_nadir_event_times(t0, t1) ==
    LET rs == rise_set_event_times(t0, t1)
    IN  IF Len(rs) = 0 THEN <<>> ELSE noon_nadir_of(rs)

\* a window that reaches only half the radius past the time
window_end_half_radius(t, julian_time) == t + (julian_time \div 2)

\* surrounding_events, lines 109-110: t0 and t1
window_start(t, julian_time) == t - julian_time

window_end(t, julian_time) == t + julian_time

\* surrounding_events(time, julian_time, events_func), for the two events_func of the code
surrounding_season_events(t) ==
    find_surrounding_events(
        season_event_times(window_start(t, Days(SeasonRadius)),
                           window_end(t, Days(SeasonRadius))), t)

surrounding_noon_nadir_events(t) ==
    find_surrounding_events(
        noon_nadir_event_times(window_start(t, Days(RiseSetRadius)),
                               window_end(t, Days(RiseSetRadius))), t)

(***************************************************************************)
(* main of src/earth_model.py                                              *)
(***************************************************************************)
\* validate_orbit_degrees: 0 <= degrees <= 180
orbit_degrees_valid(d) == 0 <= d /\ d <= 1800

\* validate_rotation_degrees: 0 <= degrees <= 360
rotation_degrees_valid(d) == 0 <= d /\ d <= 3600

\* steps_and_floor(degrees)[1]: int(degrees / DEGREES_PER_STEP), truncating toward zero
steps_and_floor(d) ==
    IF d >= 0 THEN d \div DEGREES_PER_STEP ELSE -((-d) \div DEGREES_PER_STEP)

\* lines 172-173: the orbit move of a loop sample
orbit_move_steps(next, cur) == IF next >= cur THEN next - cur ELSE cur - next
\* an orbit move that, like the rotation move, always steps forward
orbit_move_always_forward(next, cur) == TRUE

orbit_move_forward(next, cur) == next > cur

\* a rotation move by the size of the difference, whatever its sign
rotation_move_steps_unsigned(next, cur) ==
    IF next - cur < 0 THEN cur - next ELSE next - cur

\* lines 177-180: the rotation move of a loop sample
rotation_move_steps(next, cur) ==
    IF next - cur < 0 THEN STEPS_PER_REV + (next - cur) ELSE next - cur

\* the times at which main samples the model
SampleTimes == {Days(10) + 2, Days(10) + 4, Days(89)}
\* the values earth_model may hand to main, in deci-degrees
OrbitInputs == {-5, 0, 54, 180, 1800, 1805}
RotationInputs == {-5, 0, 3582, 3600, 3605}

\* what is not a local of the frame that stays on the stack
keep_scan == UNCHANGED <<axis, phase, steps, found, scanResult>>
keep_env == UNCHANGED <<sensor, pos, energized>>

\* a new sample (or scan) begins: the command counts start at zero
newsample ==
    /\ fwd' = [a \in Axes |-> 0]
    /\ bwd' = [a \in Axes |-> 0]
    /\ cmds' = [a \in Axes |-> 0]
    /\ net' = net

\* main discards scan's result and goes on: line 142 to 148, line 148 to 151
main_after_scan ==
    /\ pc = "scan" /\ phase = "RETURNED"
    /\ IF axis = 0
       THEN /\ axis' = 1
            /\ phase' = "BACK_OFF"
            /\ pc' = pc
       ELSE /\ axis' = axis
            /\ phase' = phase
            /\ pc' = "earth_model"
    /\ steps' = 0 /\ found' = FALSE /\ remaining' = 0
    /\ newsample
    /\ keep_env
    /\ UNCHANGED <<scanResult, mainVars, procVars, eventVars>>

\* earth.earth_model_now(), orbit_degrees_from_winter_solstice line 150
earth_model_seasons ==
    /\ pc = "earth_model"
    /\ \E t \in SampleTimes :
          /\ time' = t
          /\ evts' = surrounding_season_events(t)
    /\ pc' = "orbit_percent"
    /\ prev_orbit' = orbit_steps_floor
    /\ prev_rotation' = rotation_steps_floor
    /\ newsample
    /\ keep_scan /\ keep_env
    /\ UNCHANGED <<remaining, in_loop, em, orbit_steps_floor, rotation_steps_floor,
                   procVars, events>>

\* position_as_percent(evts, time) subscripts evts: a TypeError when it is None
\* (lines 153 and 133); otherwise rotation_degrees_from_solar_noon line 165
earth_model_rotation ==
    /\ pc = "orbit_percent"
    /\ IF evts = None
       THEN /\ exc' = "TypeError"
            /\ pc' = "raise"
            /\ evts' = evts
       ELSE /\ exc' = exc
            /\ pc' = "rotation_percent"
            /\ evts' = surrounding_noon_nadir_events(time)
    /\ nostep /\ keep_scan
    /\ UNCHANGED <<remaining, sensor, mainVars, released, exit_code, events, time>>

\* position_as_percent again (lines 168 and 133); then earth_model returns
earth_model_return ==
    /\ pc = "rotation_percent"
    /\ IF evts = None
       THEN /\ exc' = "TypeError"
            /\ pc' = "raise"
            /\ em' = em
            /\ evts' = evts
       ELSE /\ exc' = exc
            /\ pc' = "validate_orbit"
            /\ \E o \in OrbitInputs, r \in RotationInputs :
                  em' = [orbit_degrees |-> o, rotation_degrees |-> r]
            /\ evts' = None
    /\ nostep /\ keep_scan
    /\ UNCHANGED <<remaining, sensor, in_loop, orbit_steps_floor, rotation_steps_floor,
                   prev_orbit, prev_rotation, released, exit_code, events, time>>

\* validate_orbit_degrees(em.orbit_degrees), lines 152 and 164
validate_orbit_degrees ==
    /\ pc = "validate_orbit"
    /\ IF orbit_degrees_valid(em.orbit_degrees)
       THEN pc' = "validate_rotation" /\ exc' = exc
       ELSE pc' = "raise" /\ exc' = "SystemExit"
    /\ nostep /\ keep_scan
    /\ UNCHANGED <<remaining, sensor, mainVars, released, exit_code, eventVars>>

\* validate_rotation_degrees(em.rotation_degrees), lines 153 and 165; then the
\* steps are computed (lines 155-156, 167-168) and the orbit move is set up
\* (line 159, lines 171-173)
validate_rotation_degrees ==
    /\ pc = "validate_rotation"
    /\ IF rotation_degrees_valid(em.rotation_degrees)
       THEN /\ pc' = "take_orbit"
            /\ exc' = exc
            /\ IF in_loop
               THEN /\ remaining' =
                          IF steps_and_floor(em.orbit_degrees) /= orbit_steps_floor
                          THEN orbit_move_steps(steps_and_floor(em.orbit_degrees),
                                                orbit_steps_floor)
                          ELSE 0
                    /\ UNCHANGED <<orbit_steps_floor, rotation_steps_floor>>
               ELSE /\ orbit_steps_floor' = steps_and_floor(em.orbit_degrees)
                    /\ rotation_steps_floor' = steps_and_floor(em.rotation_degrees)
                    /\ remaining' = orbit_steps_floor'
       ELSE /\ pc' = "raise"
            /\ exc' = "SystemExit"
            /\ UNCHANGED <<remaining, orbit_steps_floor, rotation_steps_floor>>
    /\ nostep /\ keep_scan
    /\ UNCHANGED <<sensor, in_loop, em, prev_orbit, prev_rotation, released, exit_code,
                   eventVars>>

\* one iteration of take_steps on the orbit motor (line 159, line 173)
take_steps_orbit ==
    /\ pc = "take_orbit"
    /\ remaining > 0
    /\ onestep(0, IF in_loop
                  THEN orbit_move_forward(steps_and_floor(em.orbit_degrees), orbit_steps_floor)
                  ELSE TRUE)
    /\ remaining' = remaining - 1
    /\ keep_scan
    /\ UNCHANGED <<pc, sensor, mainVars, procVars, eventVars>>

\* the orbit move is done (line 174) and the rotation move is set up
\* (line 160, lines 176-181)
orbit_done ==
    /\ pc = "take_orbit"
    /\ remaining = 0
    /\ pc' = "take_rotation"
    /\ IF in_loop
       THEN /\ orbit_steps_floor' = steps_and_floor(em.orbit_degrees)
            /\ remaining' =
                  IF steps_and_floor(em.rotation_degrees) /= rotation_steps_floor
                  THEN rotation_move_steps(steps_and_floor(em.rotation_degrees),
                                           rotation_steps_floor)
                  ELSE 0
       ELSE /\ orbit_steps_floor' = orbit_steps_floor
            /\ remaining' = rotation_steps_floor
    /\ nostep /\ keep_scan
    /\ UNCHANGED <<sensor, in_loop, em, rotation_steps_floor, prev_orbit, prev_rotation,
                   procVars, eventVars>>

\* one iteration of take_steps on the rotation motor (line 160, line 181)
take_steps_rotation ==
    /\ pc = "take_rotation"
    /\ remaining > 0
    /\ onestep(1, TRUE)
    /\ remaining' = remaining - 1
    /\ keep_scan
    /\ UNCHANGED <<pc, sensor, mainVars, procVars, eventVars>>

\* the rotation move is done (line 182); the loop is entered (line 162) or sleeps (line 184)
rotation_done ==
    /\ pc = "take_rotation"
    /\ remaining = 0
    /\ IF in_loop
       THEN /\ rotation_steps_floor' = steps_and_floor(em.rotation_degrees)
            /\ pc' = "sleep"
       ELSE /\ rotation_steps_floor' = rotation_steps_floor
            /\ pc' = "positioned"
    /\ in_loop' = in_loop
    /\ nostep /\ keep_scan
    /\ UNCHANGED <<remaining, sensor, em, orbit_steps_floor, prev_orbit, prev_rotation,
                   procVars, eventVars>>

\* line 162 after the initial positioning, line 184 after a sample: the next sample
next_sample ==
    /\ pc \in {"positioned", "sleep"}
    /\ pc' = "earth_model"
    /\ in_loop' = TRUE
    /\ nostep /\ keep_scan
    /\ UNCHANGED <<remaining, sensor, em, orbit_steps_floor, rotation_steps_floor,
                   prev_orbit, prev_rotation, procVars, eventVars>>

(***************************************************************************)
(* The ways the process ends.  atexit.register(turn_off_motors) runs when  *)
(* the interpreter exits: after sys.exit, after an unhandled exception     *)
(* (KeyboardInterrupt included).  A termination signal the program does    *)
(* not handle ends the process at once, without the atexit handlers.       *)
(***************************************************************************)
Running == {"scan", "earth_model", "orbit_percent", "rotation_percent", "validate_orbit",
            "validate_rotation", "take_orbit", "take_rotation", "positioned", "sleep"}

\* the frames of main and its callees are gone
locals_gone ==
    /\ axis' = 0 /\ phase' = "RETURNED" /\ steps' = 0 /\ found' = FALSE
    /\ remaining' = 0
    /\ in_loop' = FALSE /\ em' = NoModel
    /\ orbit_steps_floor' = Undefined /\ rotation_steps_floor' = Undefined
    /\ prev_orbit' = Undefined /\ prev_rotation' = Undefined
    /\ events' = <<>> /\ time' = 0 /\ evts' = None
    /\ newsample

\* the exit status of a process ended by exception or signal e
status_of(e) ==
    CASE e = "SystemExit" -> 1
      [] e = "TypeError" -> 1
      [] e = "KeyboardInterrupt" -> 130
      [] OTHER -> 143

\* SystemExit or TypeError leaves main unhandled: the interpreter starts to exit
unwind ==
    /\ pc = "raise"
    /\ pc' = "atexit"
    /\ locals_gone
    /\ keep_env
    /\ UNCHANGED <<scanResult, procVars>>

\* Ctrl-C: KeyboardInterrupt is raised in main and leaves it unhandled
interrupt ==
    /\ pc \in Running
    /\ exc' = "KeyboardInterrupt"
    /\ pc' = "atexit"
    /\ locals_gone
    /\ keep_env
    /\ UNCHANGED <<scanResult, released, exit_code>>

\* turn_off_motors: stepper.release() on the next of steppers
turn_off_motors ==
    /\ pc = "atexit"
    /\ \E a \in Axes :
          /\ ~released[a]
          /\ \A b \in Axes : b < a => released[b]
          /\ released' = [released EXCEPT ![a] = TRUE]
    /\ nostep /\ keep_scan
    /\ UNCHANGED <<pc, remaining, sensor, mainVars, exc, exit_code, eventVars>>

\* the atexit handlers are done: the process exits
process_exit ==
    /\ pc = "atexit"
    /\ \A a \in Axes : released[a]
    /\ pc' = "gone"
    /\ exit_code' = status_of(exc)
    /\ nostep /\ keep_scan
    /\ UNCHANGED <<remaining, sensor, mainVars, released, exc, eventVars>>

\* an external termination signal (SIGTERM, SIGKILL) at any moment
terminate ==
    /\ pc /= "gone"
    /\ pc' = "gone"
    /\ exc' = "SIGTERM"
    /\ exit_code' = status_of("SIGTERM")
    /\ locals_gone
    /\ keep_env
    /\ UNCHANGED <<scanResult, released>>

(***************************************************************************)
(* SpecScan: one call of scan, on either axis with the arguments main      *)
(* passes, from every shaft position, against a range of sensors.          *)
(***************************************************************************)
\* widths 1..MaxWidth of a sensor window, besides the widths at the step limit
MaxWidth == 2
\* the first shaft position of the sensor windows, up to MaxWindowAt
MaxWindowAt == 1

WindowWidths(a) == (1..MaxWidth) \cup {max_sensor_steps(a) - 1, max_sensor_steps(a)}

WindowSensors(a) == {Window(lo, w) : lo \in 0..MaxWindowAt, w \in WindowWidths(a)}

ScanSensors(a) == WindowSensors(a) \cup {StuckTrue, StuckFalse, Flaky}

\* the shaft positions a scan may start from
StartPositions(s) == IF s.kind = "window" THEN 0..(STEPS_PER_REV - 1) ELSE {0}

InitCommon ==
    /\ steps = 0 /\ found = FALSE /\ remaining = 0
    /\ phase = "BACK_OFF"
    /\ scanResult = [a \in Axes |-> "none"]
    /\ in_loop = FALSE
    /\ em = NoModel
    /\ orbit_steps_floor = Undefined /\ rotation_steps_floor = Undefined
    /\ prev_orbit = Undefined /\ prev_rotation = Undefined
    /\ fwd = [a \in Axes |-> 0] /\ bwd = [a \in Axes |-> 0]
    /\ cmds = [a \in Axes |-> 0]
    /\ net = [a \in Axes |-> 0]
    /\ energized = [a \in Axes |-> FALSE]
    /\ released = [a \in Axes |-> FALSE]
    /\ exc = "none" /\ exit_code = Undefined

InitScan ==
    /\ InitCommon
    /\ events = <<>> /\ time = 0 /\ evts = None
    /\ pc = "scan"
    /\ axis \in Axes
    /\ \E s \in ScanSensors(axis) :
          /\ sensor = [a \in Axes |-> IF a = axis THEN s ELSE StuckFalse]
          /\ \E p \in StartPositions(s) : pos = [a \in Axes |-> IF a = axis THEN p ELSE 0]

NextScan == scan

SpecScan == InitScan /\ [][NextScan]_vars

(***************************************************************************)
(* Spec: the whole of main.                                                *)
(***************************************************************************)
MainSensors == {StuckTrue, StuckFalse, Window(MaxWindowAt, MaxWidth)}

Init ==
    /\ InitCommon
    /\ events = <<>> /\ time = 0 /\ evts = None
    /\ pc = "scan"
    /\ axis = 0
    /\ sensor \in [Axes -> MainSensors]
    \* each shaft starts just before the window in its scan's direction
    /\ pos = [a \in Axes |-> IF forward(a) THEN 0 ELSE MaxWindowAt + MaxWidth]

Next ==
    \/ scan
    \/ main_after_scan
    \/ earth_model_seasons
    \/ earth_model_rotation
    \/ earth_model_return
    \/ validate_orbit_degrees
    \/ validate_rotation_degrees
    \/ take_steps_orbit
    \/ orbit_done
    \/ take_steps_rotation
    \/ rotation_done
    \/ next_sample
    \/ unwind
    \/ interrupt
    \/ turn_off_motors
    \/ process_exit
    \/ terminate

Spec == Init /\ [][Next]_vars

(***************************************************************************)
(* SpecEvents: find_surrounding_events applied to every strictly ascending *)
(* timeline of at most MaxLen events with timestamps in 0..MaxTime, for    *)
(* every query time from before the first to after the last timestamp.     *)
(***************************************************************************)
MaxLen == 5
MaxTime == 8

\* the strictly ascending sequence of the timestamps in T, tagged with season codes in turn
Timeline(T) ==
    [i \in 1..Cardinality(T) |->
        EventTime(i % 4, CHOOSE t \in T : Cardinality({u \in T : u < t}) = i - 1)]

Timelines == {Timeline(T) : T \in {U \in SUBSET (0..MaxTime) : Cardinality(U) <= MaxLen}}

InitEvents ==
    /\ InitCommon
    /\ pc = "find"
    /\ axis = 0
    /\ sensor = [a \in Axes |-> StuckFalse]
    /\ pos = [a \in Axes |-> 0]
    /\ events \in Timelines
    /\ time \in (-1)..(MaxTime + 1)
    /\ evts = None

\* the call find_surrounding_events(events, time)
call_find_surrounding_events ==
    /\ pc = "find"
    /\ evts' = find_surrounding_events(events, time)
    /\ pc' = "find_done"
    /\ nostep /\ keep_scan
    /\ UNCHANGED <<remaining, sensor, mainVars, procVars, events, time>>

NextEvents == call_find_surrounding_events

SpecEvents == InitEvents /\ [][NextEvents]_vars

(***************************************************************************)
(* Claims about main (Spec).                                               *)
(***************************************************************************)
Moving == {"take_orbit", "take_rotation"}

\* C1: a positioning step command (the initial take_steps or a step of the
\* sampling loop) is issued to an axis only after scan returned success for
\* that axis, and never once the calibration of either axis has failed.
C1_PositioningOnlyAfterCalibration ==
    \A a \in Axes :
        (pc \in Moving /\ cmds[a] > 0) =>
            /\ scanResult[a] = "True"
            /\ \A b \in Axes : scanResult[b] /= "False"

\* C3: in a loop sample whose rotation target step differs from the tracked
\* step, the rotation motor gets exactly (target - current) mod STEPS_PER_REV
\* commands, a count in [0, STEPS_PER_REV), all FORWARD and none BACKWARD.
C3_RotationDeltaWraps ==
    (pc = "sleep" /\ rotation_steps_floor /= prev_rotation) =>
        /\ fwd[1] = (rotation_steps_floor - prev_rotation) % STEPS_PER_REV
        /\ fwd[1] \in 0..(STEPS_PER_REV - 1)
        /\ bwd[1] = 0

\* C4: in every loop sample the orbit motor gets exactly |target - current|
\* commands, all FORWARD when the target is above the current step, all
\* BACKWARD when it is below, none when they are equal, and the tracked
\* orbit step then equals the target.
C4_OrbitDeltaSigned ==
    (in_loop /\ pc \in {"take_rotation", "sleep"}) =>
        LET target == em.orbit_degrees \div DEGREES_PER_STEP
            delta == target - prev_orbit
        IN  /\ fwd[0] = (IF delta > 0 THEN delta ELSE 0)
            /\ bwd[0] = (IF delta < 0 THEN -delta ELSE 0)
            /\ cmds[0] = fwd[0] + bwd[0]
            /\ orbit_steps_floor = target

\* a loop sample moved the orbit axis from step 10 back to step 3 in 7 BACKWARD steps
C4_Witness ==
    /\ pc = "sleep" /\ prev_orbit = 10 /\ orbit_steps_floor = 3
    /\ bwd[0] = 7 /\ fwd[0] = 0

\* C5: whenever the computed EarthModel has orbit_degrees outside [0,180] or
\* rotation_degrees outside [0,360), the process stops with exit code 1
\* before any step command of that sample, the tracked steps unchanged.
C5_OutOfRangeIsFatal ==
    (/\ em /= NoModel
     /\ \/ em.orbit_degrees < 0 \/ em.orbit_degrees > 1800
        \/ em.rotation_degrees < 0 \/ em.rotation_degrees >= 3600) =>
        /\ pc \in {"validate_orbit", "validate_rotation", "raise"}
        /\ pc = "raise" => exc = "SystemExit" /\ status_of(exc) = 1
        /\ \A a \in Axes : cmds[a] = 0
        /\ orbit_steps_floor = prev_orbit
        /\ rotation_steps_floor = prev_rotation

\* C6: every EarthModel the controller accepts and acts on has orbit_degrees
\* in [0,180] and rotation_degrees in [0,360), 360 itself being rejected, so
\* the rotation target step is in 0..STEPS_PER_REV-1 and the orbit target
\* step in 0..STEPS_PER_REV/2.
C6_AcceptedModelInRange ==
    (pc \in Moving \cup {"positioned", "sleep"}) =>
        /\ 0 <= em.orbit_degrees /\ em.orbit_degrees <= 1800
        /\ 0 <= em.rotation_degrees /\ em.rotation_degrees < 3600
        /\ em.rotation_degrees \div DEGREES_PER_STEP \in 0..(STEPS_PER_REV - 1)
        /\ em.orbit_degrees \div DEGREES_PER_STEP \in 0..(STEPS_PER_REV \div 2)

\* C7: however the process ends once a motor has been energized (sys.exit,
\* an unhandled exception, an interrupt, a termination signal), release()
\* has been called on both motors by the time the process is gone.
C7_ReleasedOnEveryExit ==
    (pc = "gone" /\ \E a \in Axes : energized[a]) => \A a \in Axes : released[a]

\* C9: when no straddling event pair exists for the sample time, the absence
\* is never handed to a caller of find_surrounding_events as a missing
\* value; the process stops with a nonzero exit code and no step command is
\* issued for that sample.
C9_AbsenceIsExplicitlyFatal ==
    /\ pc \in {"orbit_percent", "rotation_percent"} => evts /= None
    /\ exc = "TypeError" => \A a \in Axes : cmds[a] = 0
    /\ (pc = "gone" /\ exc = "TypeError") => exit_code /= 0

(***************************************************************************)
(* Claims about scan (SpecScan).                                           *)
(***************************************************************************)
\* C2: scan runs BACK_OFF (stepping opposite to the seek direction), SEEK
\* (seek direction), CLEAR (seek direction), CENTER (opposite) strictly in
\* that order; a phase starts only after the previous one found what it
\* awaited; when BACK_OFF, SEEK or CLEAR fails scan returns False with no
\* further step command.
C2_PhasesInOrder ==
    [][ /\ phase' /= phase =>
            \/ /\ <<phase, phase'>> \in {<<"BACK_OFF", "SEEK">>, <<"SEEK", "CLEAR">>,
                                         <<"CLEAR", "CENTER">>}
               /\ found
               /\ scanResult' = scanResult
               /\ cmds' = cmds
            \/ /\ phase \in {"BACK_OFF", "SEEK", "CLEAR"} /\ phase' = "RETURNED"
               /\ ~found
               /\ scanResult'[axis] = "False"
               /\ cmds' = cmds
            \/ /\ phase = "CENTER" /\ phase' = "RETURNED"
               /\ scanResult'[axis] = "True"
               /\ cmds' = cmds
        /\ cmds' /= cmds =>
            /\ phase' = phase /\ phase /= "RETURNED"
            /\ cmds'[axis] = cmds[axis] + 1
            /\ IF (phase \in {"SEEK", "CLEAR"}) = forward(axis)
               THEN fwd'[axis] = fwd[axis] + 1 /\ bwd' = bwd
               ELSE bwd'[axis] = bwd[axis] + 1 /\ fwd' = fwd
        /\ scanResult[axis] /= "none" => cmds' = cmds
      ]_vars

\* a scan failed in SEEK, after BACK_OFF had stepped off the sensor
C2_Witness ==
    /\ pc = "scan" /\ phase = "RETURNED" /\ scanResult[axis] = "False"
    /\ cmds[axis] = max_sensor_steps(axis) - 1 + max_scan_steps(axis)

\* C8: against a sensor that reads true exactly on a window of w consecutive
\* positions, 1 <= w < max_sensor_steps, a successful scan counts exactly w
\* steps in CLEAR, steps back exactly floor(w/2) in CENTER and ends within
\* one step of the window's midpoint, at a position that depends on the
\* window and not on where the axis started.
C8_CentersOnWindow ==
    LET s == sensor[axis]
        w == s.w
        \* twice the midpoint of the window lo .. lo+w-1
        mid2 == 2 * s.lo + w - 1
        off2 == (2 * pos[axis] - mid2) % (2 * STEPS_PER_REV)
        centered == IF forward(axis) THEN bwd[axis] ELSE fwd[axis]
    IN  (pc = "scan" /\ s.kind = "window" /\ 1 <= w /\ w < max_sensor_steps(axis)) =>
            /\ (phase = "CLEAR" /\ found) => steps = w
            /\ phase = "CENTER" => centered + remaining = w \div 2
            /\ (phase = "RETURNED" /\ scanResult[axis] = "True") =>
                  /\ centered = w \div 2
                  /\ off2 <= 2 \/ off2 >= 2 * STEPS_PER_REV - 2
                  /\ pos[axis] = (IF forward(axis)
                                  THEN s.lo + w - (w \div 2)
                                  ELSE s.lo - 1 + (w \div 2)) % STEPS_PER_REV

\* a scan of the rotation axis succeeded on a window of odd width 49
C8_Witness ==
    /\ pc = "scan" /\ phase = "RETURNED" /\ scanResult[axis] = "True"
    /\ axis = 1 /\ sensor[axis].kind = "window" /\ sensor[axis].w = 49
    /\ bwd[axis] = 24

(***************************************************************************)
(* Claims about the event timelines (SpecEvents).                          *)
(***************************************************************************)
\* C10: on a timeline sorted strictly ascending, find_surrounding_events
\* returns the one adjacent pair (x, y) with x.time < time < y.time when the
\* time lies strictly between two consecutive events, and no result when
\* the time is before the first event, after the last, or on a timestamp.
C10_FindsTheStraddlingPair ==
    pc = "find_done" =>
        LET n == Len(events)
            inside == {i \in 1..(n - 1) : events[i].time < time /\ time < events[i + 1].time}
            outside == \/ n = 0
                       \/ time < events[1].time
                       \/ time > events[n].time
                       \/ \E i \in 1..n : events[i].time = time
        IN  /\ Cardinality(inside) <= 1
            /\ \A i \in inside : evts = <<events[i], events[i + 1]>>
            /\ inside /= {} => evts /= None
            /\ outside => evts = None
            /\ outside \/ inside /= {}

\* on a 5-element timeline the pair of the third and fourth events was returned
C10_Witness ==
    /\ pc = "find_done" /\ Len(events) = 5
    /\ evts = <<events[3], events[4]>>
    /\ events[3].time < time /\ time < events[4].time

(***************************************************************************)
(* The position model of src/earth.py.  position_as_percent is taken       *)
(* together with the factor its caller multiplies it by (90 or 180         *)
(* degrees), so that the fixed-point result keeps the full resolution.     *)
(***************************************************************************)
\* position_as_percent(events, time) * scale:  (time - events[0].time) / range * scale
position_as_percent(evs, t, scale) ==
    (scale * (t - evs[1].time)) \div (evs[2].time - evs[1].time)

\* a mapping that lost its autumnal equinox case
relative_to_absolute_without_autumn(season, degrees) ==
    IF season = EVENT_SUMMER_SOLSTICE THEN 1800 - degrees
    ELSE IF season = EVENT_WINTER_SOLSTICE THEN degrees
    ELSE 900 + degrees

\* relative_to_absolute_orbit_degrees(season, degrees)
relative_to_absolute_orbit_degrees(season, degrees) ==
    IF season = EVENT_SUMMER_SOLSTICE THEN 1800 - degrees
    ELSE IF season = EVENT_AUTUMNAL_EQUINOX THEN 900 - degrees
    ELSE IF season = EVENT_WINTER_SOLSTICE THEN degrees
    ELSE 900 + degrees

\* orbit_degrees_from_winter_solstice, lines 153-156, on the straddling pair evs
orbit_degrees_of(evs, t) ==
    relative_to_absolute_orbit_degrees(evs[1].value, position_as_percent(evs, t, 900))

\* the season after season s in the almanac's yearly order:
\* winter solstice, vernal equinox, summer solstice, autumnal equinox
next_season(s) == (s + 1) % 4

(***************************************************************************)
(* SpecOrbit: the orbit value along the year.  A segment is a pair of      *)
(* consecutive season events, its first event at time 0 and its second at  *)
(* 1..MaxRange; time runs from the first event to the second (where the    *)
(* value is the limit at the end of the segment), then the next segment    *)
(* begins.                                                                 *)
(***************************************************************************)
MaxRange == 8

Segment(s, r) == <<EventTime(s, 0), EventTime(next_season(s), r)>>

InitOrbit ==
    /\ InitCommon
    /\ pc = "orbit"
    /\ axis = 0
    /\ sensor = [a \in Axes |-> StuckFalse]
    /\ pos = [a \in Axes |-> 0]
    /\ events = <<>>
    /\ \E s \in 0..3, r \in 1..MaxRange :
          /\ evts = Segment(s, r)
          /\ time \in 0..r

orbit_em(evs, t) == [orbit_degrees |-> orbit_degrees_of(evs, t), rotation_degrees |-> Undefined]

\* the orbit value at the current time
orbit_sample ==
    /\ pc = "orbit"
    /\ em' = orbit_em(evts, time)
    /\ pc' = "orbit_known"
    /\ nostep /\ keep_scan
    /\ UNCHANGED <<remaining, sensor, in_loop, orbit_steps_floor, rotation_steps_floor,
                   prev_orbit, prev_rotation, procVars, eventVars>>

\* the orbit value one tick later in the same segment
orbit_advance ==
    /\ pc = "orbit_known"
    /\ time < evts[2].time
    /\ time' = time + 1
    /\ em' = orbit_em(evts, time')
    /\ nostep /\ keep_scan
    /\ UNCHANGED <<pc, remaining, sensor, in_loop, orbit_steps_floor, rotation_steps_floor,
                   prev_orbit, prev_rotation, procVars, events, evts>>

\* the orbit value at the start of the segment that follows
orbit_next_segment ==
    /\ pc = "orbit_known"
    /\ time = evts[2].time
    /\ \E r \in 1..MaxRange : evts' = Segment(evts[2].value, r)
    /\ time' = 0
    /\ em' = orbit_em(evts', time')
    /\ nostep /\ keep_scan
    /\ UNCHANGED <<pc, remaining, sensor, in_loop, orbit_steps_floor, rotation_steps_floor,
                   prev_orbit, prev_rotation, procVars, events>>

NextOrbit == orbit_sample \/ orbit_advance \/ orbit_next_segment

SpecOrbit == InitOrbit /\ [][NextOrbit]_vars

\* C11: with the seasons in their yearly order, the orbit value is always in
\* [0,180]; it starts at 0 after a winter solstice, at 90 after an equinox
\* and at 180 after a summer solstice; within a segment it never decreases
\* (after the winter solstice and the vernal equinox) or never increases
\* (after the summer solstice and the autumnal equinox); and its value at
\* the end of a segment is the start value of the next one.
C11_OrbitTriangleWave ==
    [][ pc' = "orbit_known" =>
          LET season == evts'[1].value
              v == em'.orbit_degrees
          IN  /\ 0 <= v /\ v <= 1800
              /\ time' = evts'[1].time =>
                    v = (IF season = EVENT_WINTER_SOLSTICE THEN 0
                         ELSE IF season = EVENT_SUMMER_SOLSTICE THEN 1800
                         ELSE 900)
              /\ (pc = "orbit_known" /\ evts' = evts) =>
                    /\ time' > time
                    /\ season \in {EVENT_WINTER_SOLSTICE, EVENT_VERNAL_EQUINOX}
                          => v >= em.orbit_degrees
                    /\ season \in {EVENT_SUMMER_SOLSTICE, EVENT_AUTUMNAL_EQUINOX}
                          => v <= em.orbit_degrees
              /\ (pc = "orbit_known" /\ evts' /= evts) => v = em.orbit_degrees
      ]_vars

\* halfway through the segment after the autumnal equinox the value is 45 degrees
C11_Witness ==
    /\ pc = "orbit_known" /\ evts[1].value = EVENT_AUTUMNAL_EQUINOX
    /\ evts[2].time = 2 * time /\ em.orbit_degrees = 450

\* a rotation that adds the half turn after solar noon instead of after nadir
rotation_degrees_half_turn_after_noon(evs, t) ==
    LET degrees == position_as_percent(evs, t, 1800)
    IN  IF evs[1].value THEN degrees + 1800 ELSE degrees

\* rotation_degrees_from_solar_noon, lines 167-171, on the straddling pair evs
rotation_degrees_of(evs, t) ==
    LET degrees == position_as_percent(evs, t, 1800)
    IN  IF evs[1].value THEN degrees ELSE degrees + 1800

(***************************************************************************)
(* SpecRotation: the rotation value along consecutive noon/nadir           *)
(* segments.  The rise/set timeline alternates sunrise and sunset; its     *)
(* timestamps lie on the even ticks, so that every midpoint is a tick.     *)
(* Time runs from the first event of a noon/nadir pair to the second       *)
(* (where the value is the limit at the end of the segment), then the      *)
(* pair that follows in noon_nadir_event_times is taken.                   *)
(***************************************************************************)
MaxHalfGap == 2
RiseSetLen == 5

\* the alternating rise/set timeline that starts at time 0 with tag first
\* and whose consecutive events are gaps[i] apart
RECURSIVE GapSum(_, _)
GapSum(gaps, n) == IF n = 0 THEN 0 ELSE GapSum(gaps, n - 1) + gaps[n]

Alternating(first, gaps) ==
    [i \in 1..(Len(gaps) + 1) |->
        EventTime(IF i % 2 = 1 THEN first ELSE ~first, GapSum(gaps, i - 1))]

AlternatingTimelines ==
    { Alternating(first, gaps) :
        first \in BOOLEAN,
        gaps \in [1..(RiseSetLen - 1) -> {2 * k : k \in 1..MaxHalfGap}] }

InitRotation ==
    /\ InitCommon
    /\ pc = "rotation"
    /\ axis = 0
    /\ sensor = [a \in Axes |-> StuckFalse]
    /\ pos = [a \in Axes |-> 0]
    /\ events \in AlternatingTimelines
    /\ \E i \in 1..(Len(events) - 2) :
          /\ evts = <<noon_nadir_of(events)[i], noon_nadir_of(events)[i + 1]>>
          /\ time \in evts[1].time .. evts[2].time

rotation_em(evs, t) == [orbit_degrees |-> Undefined, rotation_degrees |-> rotation_degrees_of(evs, t)]

\* the rotation value at the current time
rotation_sample ==
    /\ pc = "rotation"
    /\ em' = rotation_em(evts, time)
    /\ pc' = "rotation_known"
    /\ nostep /\ keep_scan
    /\ UNCHANGED <<remaining, sensor, in_loop, orbit_steps_floor, rotation_steps_floor,
                   prev_orbit, prev_rotation, procVars, eventVars>>

\* the rotation value one tick later in the same segment
rotation_advance ==
    /\ pc = "rotation_known"
    /\ time < evts[2].time
    /\ time' = time + 1
    /\ em' = rotation_em(evts, time')
    /\ nostep /\ keep_scan
    /\ UNCHANGED <<pc, remaining, sensor, in_loop, orbit_steps_floor, rotation_steps_floor,
                   prev_orbit, prev_rotation, procVars, events, evts>>

\* the rotation value at the start of the segment that follows
rotation_next_segment ==
    /\ pc = "rotation_known"
    /\ time = evts[2].time
    /\ \E i \in 1..(Len(events) - 2) :
          /\ noon_nadir_of(events)[i] = evts[2]
          /\ evts' = <<noon_nadir_of(events)[i], noon_nadir_of(events)[i + 1]>>
    /\ em' = rotation_em(evts', time)
    /\ nostep /\ keep_scan
    /\ UNCHANGED <<pc, remaining, sensor, in_loop, orbit_steps_floor, rotation_steps_floor,
                   prev_orbit, prev_rotation, procVars, events, time>>

NextRotation == rotation_sample \/ rotation_advance \/ rotation_next_segment

SpecRotation == InitRotation /\ [][NextRotation]_vars

\* C12: with alternating sunrise and sunset events, the rotation value is in
\* [0,360) at every time of a segment before its end; it starts at 0 in the
\* segment that follows solar noon and at 180 in the segment that follows
\* nadir; within a segment it never decreases; the segment after solar noon
\* ends at the 180 the next one starts with; and the segment after nadir
\* ends at 360, where the next one starts again at 0.
C12_RotationSawtooth ==
    [][ pc' = "rotation_known" =>
          LET noon == evts'[1].value
              v == em'.rotation_degrees
          IN  /\ time' < evts'[2].time => (0 <= v /\ v < 3600)
              /\ time' = evts'[1].time => v = (IF noon THEN 0 ELSE 1800)
              /\ (pc = "rotation_known" /\ evts' = evts) =>
                    (time' > time /\ v >= em.rotation_degrees)
              /\ (pc = "rotation_known" /\ evts' /= evts) =>
                    /\ evts'[1] = evts[2]
                    /\ noon = ~evts[1].value
                    /\ ~noon => (em.rotation_degrees = 1800 /\ v = 1800)
                    /\ noon => (em.rotation_degrees = 3600 /\ v = 0)
      ]_vars

\* a quarter of the way from nadir to solar noon the value is 225 degrees
C12_Witness ==
    /\ pc = "rotation_known" /\ ~evts[1].value
    /\ 4 * (time - evts[1].time) = evts[2].time - evts[1].time
    /\ em.rotation_degrees = 2250

(***************************************************************************)
(* earth_model, src/earth.py lines 174-180.  Its subtraction and its       *)
(* addition of 360 are binary floating-point operations: each result is    *)
(* rounded to the nearest representable value, ties to the even            *)
(* significand, and the spacing of the representable values doubles at     *)
(* every power of two.  The model keeps that shape with a short            *)
(* significand: below FloatExact every tenth of a degree is representable, *)
(* from there on every second one, then every fourth.                      *)
(***************************************************************************)
FloatExact == 2048

Abs(v) == IF v < 0 THEN -v ELSE v

\* the spacing of the representable values around v
ulp(v) ==
    IF Abs(v) < FloatExact THEN 1
    ELSE IF Abs(v) < 2 * FloatExact THEN 2
    ELSE 4

\* v rounded to the nearest representable value, ties to even
float(v) ==
    LET u == ulp(v)
        q == Abs(v) \div u
        r == Abs(v) % u
        m == IF 2 * r < u THEN q
             ELSE IF 2 * r > u THEN q + 1
             ELSE IF q % 2 = 0 THEN q ELSE q + 1
    IN  IF v < 0 THEN -(m * u) ELSE m * u

Representable(v) == float(v) = v

\* earth_model, lines 177-180, on the two values computed at lines 175-176
earth_model_of(orbit_degrees, rotation_degrees) ==
    LET difference == float(rotation_degrees - orbit_degrees)
    IN  [orbit_degrees |-> orbit_degrees,
         rotation_degrees |-> IF difference < 0 THEN float(difference + 3600)
                              ELSE difference]

(***************************************************************************)
(* SpecEarthModel: earth_model as a function of the orbit value and the    *)
(* absolute rotation value.  The inputs are the representable values of    *)
(* the two ranges that lie on, or next to, a grid of InputGrid tenths of a *)
(* degree.                                                                 *)
(***************************************************************************)
InputGrid == 100

OnInputGrid(v, offsets) == Representable(v) /\ (v % InputGrid) \in offsets

OrbitValues == { v \in 0..1800 : OnInputGrid(v, {0, 1}) }

AbsoluteRotationValues == { v \in 0..3599 : OnInputGrid(v, {0, InputGrid - 2}) }

InitEarthModel ==
    /\ InitCommon
    /\ pc = "earth_model_call"
    /\ axis = 0
    /\ sensor = [a \in Axes |-> StuckFalse]
    /\ pos = [a \in Axes |-> 0]
    /\ events = <<>>
    /\ time = 0
    /\ evts = None

\* lines 175-176: the orbit value and the absolute rotation value
earth_model_absolute ==
    /\ pc = "earth_model_call"
    /\ \E o \in OrbitValues, r \in AbsoluteRotationValues :
          em' = [orbit_degrees |-> o, rotation_degrees |-> r]
    /\ pc' = "absolute"
    /\ nostep /\ keep_scan
    /\ UNCHANGED <<remaining, sensor, in_loop, orbit_steps_floor, rotation_steps_floor,
                   prev_orbit, prev_rotation, procVars, eventVars>>

\* lines 177-180: from the absolute rotation to the EarthModel returned
earth_model_relative ==
    /\ pc = "absolute"
    /\ em' = earth_model_of(em.orbit_degrees, em.rotation_degrees)
    /\ pc' = "relative"
    /\ nostep /\ keep_scan
    /\ UNCHANGED <<remaining, sensor, in_loop, orbit_steps_floor, rotation_steps_floor,
                   prev_orbit, prev_rotation, procVars, eventVars>>

NextEarthModel == earth_model_absolute \/ earth_model_relative

SpecEarthModel == InitEarthModel /\ [][NextEarthModel]_vars

\* C13: for every orbit value in [0,180] and every absolute rotation value
\* in [0,360), earth_model returns the orbit value and a relative rotation
\* in [0,360) with (relative rotation + orbit) mod 360 equal to the absolute
\* rotation; at orbit 0 and absolute rotation 0 it returns (0, 0).
C13_RelativeRotation ==
    [][ (pc = "absolute" /\ pc' = "relative") =>
          /\ em'.orbit_degrees = em.orbit_degrees
          /\ 0 <= em'.rotation_degrees /\ em'.rotation_degrees < 3600
          /\ (em'.rotation_degrees + em'.orbit_degrees) % 3600 = em.rotation_degrees
          /\ (em.orbit_degrees = 0 /\ em.rotation_degrees = 0) =>
                (em'.orbit_degrees = 0 /\ em'.rotation_degrees = 0)
      ]_vars

(***************************************************************************)
(* SpecNoonNadir: noon_nadir_event_times on every strictly ascending       *)
(* rise/set sequence of 1..MaxLen events with timestamps on the even ticks *)
(* up to 2 * MaxTime and any boolean tags.                                 *)
(***************************************************************************)
\* the i-th smallest element of T
Nth(T, i) == CHOOSE t \in T : Cardinality({u \in T : u < t}) = i - 1

RiseSet(T, tags) == [i \in 1..Cardinality(T) |-> EventTime(tags[i], 2 * Nth(T, i))]

RiseSetTimelines ==
    UNION { { RiseSet(T, tags) : tags \in [1..Cardinality(T) -> BOOLEAN] } :
            T \in {U \in SUBSET (0..MaxTime) : Cardinality(U) >= 1 /\ Cardinality(U) <= MaxLen} }

InitNoonNadir ==
    /\ InitCommon
    /\ pc = "noon_nadir"
    /\ axis = 0
    /\ sensor = [a \in Axes |-> StuckFalse]
    /\ pos = [a \in Axes |-> 0]
    /\ events \in RiseSetTimelines
    /\ time = 0
    /\ evts = None

\* lines 84-91 on the rise/set sequence of line 85
call_noon_nadir_event_times ==
    /\ pc = "noon_nadir"
    /\ evts' = noon_nadir_of(events)
    /\ pc' = "noon_nadir_done"
    /\ nostep /\ keep_scan
    /\ UNCHANGED <<remaining, sensor, mainVars, procVars, events, time>>

NextNoonNadir == call_noon_nadir_event_times

SpecNoonNadir == InitNoonNadir /\ [][NextNoonNadir]_vars

\* C14: for a strictly ascending rise/set sequence of n >= 1 events,
\* noon_nadir_event_times yields n - 1 events; the i-th lies at the midpoint
\* of rise/set events i and i+1 and carries the tag of event i; and the
\* result is strictly ascending, no two of its events sharing a timestamp.
C14_MidpointsOfConsecutivePairs ==
    pc = "noon_nadir_done" =>
        /\ Len(evts) = Len(events) - 1
        /\ \A i \in 1..Len(evts) :
              /\ 2 * evts[i].time = events[i].time + events[i + 1].time
              /\ evts[i].value = events[i].value
        /\ \A i, j \in 1..Len(evts) : i < j => evts[i].time < evts[j].time

\* three midpoints, the first a solar noon and the second a nadir, from
\* four rise/set events whose second and third are both sunsets
C14_Witness ==
    /\ pc = "noon_nadir_done" /\ Len(evts) = 3
    /\ evts[1].value /\ ~evts[2].value /\ ~evts[3].value
    /\ events[4].value

\* C15: a bounded phase takes at most its step limit, and scan reports its
\* failure only if the awaited reading (not sensing for BACK_OFF and CLEAR,
\* sensing for SEEK) shows at none of the positions reached, the position
\* reached by the last permitted step included.
C15_FailsOnlyIfNeverAwaited ==
    (pc = "scan" /\ phase \in {"BACK_OFF", "SEEK", "CLEAR"}) =>
        /\ steps <= phase_max(phase, axis)
        /\ ( /\ sensor[axis].kind = "window"
             /\ ~loop_continues(found, steps, phase_max(phase, axis))
             /\ phase_failed(found) )
           => OverWindow(sensor[axis], pos[axis]) = (phase /= "SEEK")

\* C16: when both calibrations succeeded, after the initial positioning and
\* after every completed loop sample the orbit motor's net commanded steps
\* since calibration equal the tracked orbit step, the rotation motor's are
\* congruent to the tracked rotation step modulo STEPS_PER_REV, and each
\* tracked step is floor(degrees / DEGREES_PER_STEP) of the validated model.
C16_NetStepsMatchTracked ==
    (pc \in {"positioned", "sleep"} /\ \A a \in Axes : scanResult[a] = "True") =>
        /\ net[0] = orbit_steps_floor
        /\ net[1] = rotation_steps_floor % STEPS_PER_REV
        /\ orbit_steps_floor = em.orbit_degrees \div DEGREES_PER_STEP
        /\ rotation_steps_floor = em.rotation_degrees \div DEGREES_PER_STEP

\* a loop sample that took the orbit back from step 10 to step 3 and the
\* rotation across the seam from step 199 to step 0
C16_Witness ==
    /\ pc = "sleep" /\ \A a \in Axes : scanResult[a] = "True"
    /\ prev_orbit = 10 /\ orbit_steps_floor = 3 /\ net[0] = 3
    /\ prev_rotation = 199 /\ rotation_steps_floor = 0 /\ net[1] = 0

(***************************************************************************)
(* SpecScanFair: one call of scan, which keeps running: every statement    *)
(* of the loops completes (time.sleep returns), so a scan that can take a  *)
(* step eventually takes one.                                              *)
(***************************************************************************)
SpecScanFair == InitScan /\ [][NextScan]_vars /\ WF_vars(NextScan)

\* the most step commands the four phases may issue on axis a
scan_step_limit(a) ==
    max_sensor_steps(a) + max_scan_steps(a) + max_sensor_steps(a) + (max_sensor_steps(a) \div 2)

\* C17: whatever the sensor does (a window, stuck true, stuck false, or
\* changing arbitrarily between reads), scan returns, and it never issues
\* more than max_sensor_steps + max_scan_steps + max_sensor_steps +
\* floor(max_sensor_steps / 2) step commands.
C17_ScanTerminatesWithinLimit ==
    /\ [](cmds[axis] <= scan_step_limit(axis))
    /\ <>(phase = "RETURNED")

\* the longest successful scan: an arbitrarily changing sensor lets every
\* bounded phase succeed at its last read
C17_Witness ==
    /\ phase = "RETURNED" /\ scanResult[axis] = "True"
    /\ sensor[axis].kind = "flaky"
    /\ cmds[axis] = (max_sensor_steps(axis) - 1) + (max_scan_steps(axis) - 1)
                    + (max_sensor_steps(axis) - 1) + ((max_sensor_steps(axis) - 1) \div 2)

(***************************************************************************)
(* SpecSurrounding: surrounding_events with the two radii of the code, on  *)
(* almanac timelines with the spacing of the real events.  `events` is the *)
(* almanac's timeline, of which find_discrete returns the part inside the  *)
(* window.  The timeline reaches past the window of every query time.      *)
(***************************************************************************)
\* the timeline that starts at time 0 with the given tags, consecutive
\* events gaps[i] apart
Spaced(tags, gaps) ==
    [i \in 1..(Len(gaps) + 1) |-> EventTime(tags[i], GapSum(gaps, i - 1))]

\* the time between two consecutive season events: shorter than the radius
SeasonGaps == {Days(89), Days(94), Days(SeasonRadius) - 1}

\* five season events in their yearly order
SeasonTimelines ==
    { Spaced([i \in 1..5 |-> next_season(i + first)], gaps) :
        first \in 0..3, gaps \in [1..4 -> SeasonGaps] }

\* from sunrise to sunset; from sunset to sunrise it is the rest of the day
DayLengths == {2, 4, 6}

\* eight alternating sunrises and sunsets, each consecutive pair of gaps one day
RiseSetTimelinesOfDays ==
    { Spaced([i \in 1..8 |-> IF i % 2 = 1 THEN first ELSE ~first],
             [i \in 1..7 |-> IF (i % 2 = 1) = first THEN day ELSE Days(1) - day]) :
        first \in BOOLEAN, day \in DayLengths }

Timestamps(evs) == {evs[i].time : i \in 1..Len(evs)}

InitSurrounding ==
    /\ InitCommon
    /\ axis = 0
    /\ sensor = [a \in Axes |-> StuckFalse]
    /\ pos = [a \in Axes |-> 0]
    /\ evts = None
    /\ \/ /\ pc = "seasons"
          /\ events \in SeasonTimelines
          /\ time \in (events[2].time + 1) .. (events[4].time - 1)
          /\ time \notin Timestamps(events)
       \/ /\ pc = "rise_set"
          /\ events \in RiseSetTimelinesOfDays
          /\ time \in (events[1].time + Days(RiseSetRadius))
                      .. (events[Len(events)].time - Days(RiseSetRadius))
          /\ time \notin Timestamps(noon_nadir_of(events))

\* surrounding_events(time, 100, season_event_times)
surrounding_events_seasons ==
    /\ pc = "seasons"
    /\ evts' = find_surrounding_events(
                  in_window(events, window_start(time, Days(SeasonRadius)),
                                    window_end(time, Days(SeasonRadius))), time)
    /\ pc' = "season_pair"
    /\ nostep /\ keep_scan
    /\ UNCHANGED <<remaining, sensor, mainVars, procVars, events, time>>

\* surrounding_events(time, 1, noon_nadir_event_times)
surrounding_events_noon_nadir ==
    /\ pc = "rise_set"
    /\ evts' = find_surrounding_events(
                  noon_nadir_of(
                      in_window(events, window_start(time, Days(RiseSetRadius)),
                                        window_end(time, Days(RiseSetRadius)))), time)
    /\ pc' = "noon_nadir_pair"
    /\ nostep /\ keep_scan
    /\ UNCHANGED <<remaining, sensor, mainVars, procVars, events, time>>

NextSurrounding == surrounding_events_seasons \/ surrounding_events_noon_nadir

SpecSurrounding == InitSurrounding /\ [][NextSurrounding]_vars

\* evs holds x and y next to each other
Consecutive(evs, x, y) == \E i \in 1..(Len(evs) - 1) : evs[i] = x /\ evs[i + 1] = y

\* C18: with season events less than 100 days apart, and with alternating
\* sunrises and sunsets whose consecutive gaps sum to one day, at every time
\* that is not an event's timestamp surrounding_events returns a pair: two
\* consecutive season events (radius 100), respectively two consecutive
\* noon/nadir events (radius 1), that straddle the time.
C18_RadiusGivesStraddlingPair ==
    /\ pc = "season_pair" =>
          /\ evts /= None
          /\ evts[1].time < time /\ time < evts[2].time
          /\ Consecutive(events, evts[1], evts[2])
    /\ pc = "noon_nadir_pair" =>
          /\ evts /= None
          /\ evts[1].time < time /\ time < evts[2].time
          /\ Consecutive(noon_nadir_of(events), evts[1], evts[2])

\* a query at the very time of a sunset: the pair is the solar noon before
\* it and the nadir after it, on a day of nine hours of light
C18_Witness ==
    /\ pc = "noon_nadir_pair" /\ evts /= None
    /\ evts[1].value /\ ~evts[2].value
    /\ \E i \in 1..Len(events) : ~events[i].value /\ events[i].time = time
    /\ evts[2].time - evts[1].time = Days(1) \div 2
    /\ time - evts[1].time = 1

====
